---- MODULE Spec2Model ----
(***************************************************************************)
(* A model of PyGraphETL's graph database builder                          *)
(* (src/graphetl/graph_db_builder.py, src/graphetl/dtypes.py).             *)
(*                                                                         *)
(* GraphDBBuilder.__init__ reads the configuration, connects to every      *)
(* source (_process_config) and creates one PyTables table per node type   *)
(* (_initialize_tables: peek every source, merge_fields, make_table,       *)
(* add_source_to_node_type).  build_hdf5_database then streams every       *)
(* source of every node type into its table (parse_nodes,                  *)
(* _parse_source_dispatcher, parse_mysql_source,                           *)
(* safe_stream_mysql_to_pytable).                                          *)
(*                                                                         *)
(* Three specifications share the actions below:                           *)
(*   Spec        the whole build, from the entry of __init__;              *)
(*   SpecMerge   merge_fields on its own, entered with any list of         *)
(*               per-source field lists;                                   *)
(*   SpecStream  safe_stream_mysql_to_pytable on its own, entered with any *)
(*               destination table, source field list and cursor.          *)
(*                                                                         *)
(* A Python exception is a record [type, args]; an exception that nothing  *)
(* catches ends the run (pc = "raised").  Python's None is the string      *)
(* "None" where it is a value, and Absent where it is an entry of a        *)
(* field_idx_map (whose other entries are integers).                       *)
(***************************************************************************)
EXTENDS Integers, Sequences, FiniteSets, TLC

\* ------------------------------------------------------------- bounds
\* Columns of one source table.
MaxFields == 2
\* Rows one cursor yields.
MaxRows == 2
\* Records a destination table holds when safe_stream_mysql_to_pytable is entered on its own.
MaxPrior == 1

\* ----------------------------------------------------------- universes
SourceNames == {"A", "B"}
SourceOrder == <<"A", "B">>
NodeLabels == <<"X", "Y">>
SourceKinds == {"mysql", "csv"}
\* Tables of one source database (the 'table' of a node type's source).
TableNames == {"t", "u"}
\* Column names of the source tables the build peeks into.
FieldNames == {"id", "name"}
\* Column names when merge_fields is entered on its own.
MergeFieldNames == {"id", "name", "age"}
\* MySQL type codes the source tables use (the codes dtypes.py maps).
TypeCodes == {3, 253}
MergeTypeCodes == {3, 4, 253}

\* ------------------------------------------------------------- helpers
Range(s) == {s[i] : i \in DOMAIN s}

\* Every order in which the elements of S may be listed.
Perms(S) == {p \in [1..Cardinality(S) -> S] : Range(p) = S}

\* Sequences of length lo..hi over S.
SeqsOf(S, lo, hi) == UNION {[1..n -> S] : n \in lo..hi}

\* Sequences of length lo..hi over S with no element twice.
DistinctSeqsOf(S, lo, hi) == {s \in SeqsOf(S, lo, hi) : Cardinality(Range(s)) = Len(s)}

RECURSIVE Flatten(_)
Flatten(ss) == IF ss = <<>> THEN <<>> ELSE Head(ss) \o Flatten(Tail(ss))

\* ---------------------------------------------------------- exceptions
Exc(type) == [type |-> type, args |-> <<>>]
NoExc == Exc("none")

\* -------------------------------------------------------------- dtypes
\* tables.StringCol(256), tables.Int32Col(), tables.Float32Col(): a column
\* descriptor, of which the code reads .type.
StringCol256 == [type |-> "string", itemsize |-> 256]
Int32Col == [type |-> "int32", itemsize |-> 4]
Float32Col == [type |-> "float32", itemsize |-> 4]

map_pytables == ("VAR_STRING" :> StringCol256) @@ ("LONG" :> Int32Col) @@ ("FLOAT" :> Float32Col)

\* mysql.connector.FieldType.get_info, on the codes dtypes.py documents.
FieldType_get_info == (3 :> "LONG") @@ (4 :> "FLOAT") @@ (253 :> "VAR_STRING")

\* A cursor description entry is <<column name, type code>> (the entries
\* description_to_fields reads: f_data[0], f_data[1]).
Descriptions(names, codes) ==
    {d \in SeqsOf(names \X codes, 1, MaxFields) :
        Cardinality({d[i][1] : i \in DOMAIN d}) = Len(d)}

description_to_fields(mysql_cur_description) ==
    [i \in DOMAIN mysql_cur_description |->
        <<mysql_cur_description[i][1], FieldType_get_info[mysql_cur_description[i][2]]>>]

\* Lines 178, 190, 191: field_names, and the (name, Col) pairs.
field_names_of(field_descr) == [i \in DOMAIN field_descr |-> field_descr[i][1]]

types_structured_of(field_descr) ==
    [i \in DOMAIN field_descr |-> <<field_descr[i][1], map_pytables[field_descr[i][2]]>>]

\* ------------------------------------------------------- merge_fields
\* [v for n, v in all_sources_fields if n == name]
dtypes_list(all_sources_fields, name) ==
    LET keep(p) == p[1] = name
        kept == SelectSeq(all_sources_fields, keep)
    IN  [i \in DOMAIN kept |-> kept[i][2]]

\* A call's outcome: it returned value, or raised.
Returned(v) == [returned |-> TRUE, value |-> v, raised |-> NoExc]
Raised(e) == [returned |-> FALSE, value |-> <<>>, raised |-> e]

\* A faulty variant: the columns are told apart by their size, not by their type.
types_mixed_by_itemsize(dtypes) == Cardinality({x.itemsize : x \in Range(dtypes)}) > 1

\* The assertion of line 422 fails: len(set([x.type for x in dtypes_list])) > 1.
types_mixed(dtypes) == Cardinality({x.type : x \in Range(dtypes)}) > 1

\* A faulty variant: the assertion of line 422 left out, so that the first type wins.
merge_fields_no_assert(all_sources_fields, field_names_unique) ==
    IF all_sources_fields = <<>>
    THEN Raised(Exc("ValueError"))
    ELSE Returned([i \in DOMAIN field_names_unique |->
            <<field_names_unique[i], dtypes_list(all_sources_fields, field_names_unique[i])[1]>>])

\* A faulty variant: the loop runs over field_names instead of field_names_unique.
merge_fields_no_set(all_sources_fields, field_names_unique) ==
    IF all_sources_fields = <<>>
    THEN Raised(Exc("ValueError"))
    ELSE IF \E i \in DOMAIN field_names_unique :
              types_mixed(dtypes_list(all_sources_fields, field_names_unique[i]))
         THEN Raised(Exc("AssertionError"))
         ELSE Returned([i \in DOMAIN all_sources_fields |->
                <<all_sources_fields[i][1], dtypes_list(all_sources_fields, all_sources_fields[i][1])[1]>>])

\* A faulty variant: the last of the unique names is left out of the result.
merge_fields_drop_last(all_sources_fields, field_names_unique) ==
    IF all_sources_fields = <<>>
    THEN Raised(Exc("ValueError"))
    ELSE IF \E i \in DOMAIN field_names_unique :
              types_mixed(dtypes_list(all_sources_fields, field_names_unique[i]))
         THEN Raised(Exc("AssertionError"))
         ELSE Returned([i \in 1..(Len(field_names_unique) - 1) |->
                <<field_names_unique[i], dtypes_list(all_sources_fields, field_names_unique[i])[1]>>])

\* merge_fields, with field_names_unique = list(set(field_names)) given: the
\* order of a set's elements is not fixed by the code.  zip(*[]) yields nothing
\* to unpack (line 416, ValueError); the assert of line 422 has no message.
merge_fields(all_sources_fields, field_names_unique) ==
    IF all_sources_fields = <<>>
    THEN Raised(Exc("ValueError"))
    ELSE IF \E i \in DOMAIN field_names_unique :
              types_mixed(dtypes_list(all_sources_fields, field_names_unique[i]))
         THEN Raised(Exc("AssertionError"))
         ELSE Returned([i \in DOMAIN field_names_unique |->
                <<field_names_unique[i], dtypes_list(all_sources_fields, field_names_unique[i])[1]>>])

\* make_table_dict_descr: a dict from name to Col, in insertion order.  A name
\* given again keeps its first place and takes the later Col.
RECURSIVE make_table_dict_descr(_)
make_table_dict_descr(field_tuples) ==
    IF field_tuples = <<>> THEN <<>>
    ELSE LET n == Len(field_tuples)
             last == field_tuples[n]
             rest == make_table_dict_descr(SubSeq(field_tuples, 1, n - 1))
         IN  IF \E i \in DOMAIN rest : rest[i][1] = last[1]
             THEN [i \in DOMAIN rest |-> IF rest[i][1] = last[1] THEN last ELSE rest[i]]
             ELSE Append(rest, last)

\* ------------------------------------------- add_source_to_node_type
\* The entry of a field_idx_map for a target field the source lacks (None).
Absent == -1

\* source_fields.index(field): the 0-based place of the first occurrence.
index_of(source_fields, field) ==
    CHOOSE i \in 0..(Len(source_fields) - 1) :
        /\ source_fields[i + 1] = field
        /\ \A j \in 0..(i - 1) : source_fields[j + 1] # field

\* A faulty variant: the ValueError of a missing field is answered with index 0.
field_idx_map_of_zero(source_fields, target_fields) ==
    [i \in DOMAIN target_fields |->
        IF target_fields[i] \in Range(source_fields)
        THEN index_of(source_fields, target_fields[i])
        ELSE 0]

\* Lines 276-282: one entry per target field, in the order of target_fields.
field_idx_map_of(source_fields, target_fields) ==
    [i \in DOMAIN target_fields |->
        IF target_fields[i] \in Range(source_fields)
        THEN index_of(source_fields, target_fields[i])
        ELSE Absent]

\* Iterating the dict of make_table_dict_descr yields its keys.
keys_of(table_fields) == [i \in DOMAIN table_fields |-> table_fields[i][1]]

\* A faulty variant: the source's fields are those of the table of the source
\* that was cached first, whatever table the node type reads.
add_source_of_first_table(sources, field_lists, source_name, source_table, target_fields) ==
    LET cached == IF "t" \in DOMAIN field_lists[source_name] THEN "t" ELSE source_table
        source_fields == field_lists[source_name][cached]
    IN  Append(sources,
            [source_name |-> source_name,
             source_table_name |-> source_table,
             field_names |-> source_fields,
             field_idx_map |-> field_idx_map_of(source_fields, keys_of(target_fields))])

\* The new value of node_type.sources: the source's fields are those cached
\* for its table (line 271).
add_source_to_node_type(sources, field_lists, source_name, source_table, target_fields) ==
    LET source_fields == field_lists[source_name][source_table]
    IN  Append(sources,
            [source_name |-> source_name,
             source_table_name |-> source_table,
             field_names |-> source_fields,
             field_idx_map |-> field_idx_map_of(source_fields, keys_of(target_fields))])

\* Lines 239-240: every configured source of the node type, in order;
\* s_tables gives the table each is configured with.
RECURSIVE store_sources(_, _, _, _)
store_sources(s_names, s_tables, field_lists, target_fields) ==
    IF s_names = <<>> THEN <<>>
    ELSE LET n == Len(s_names)
         IN  add_source_to_node_type(
                 store_sources(SubSeq(s_names, 1, n - 1), s_tables, field_lists, target_fields),
                 field_lists, s_names[n], s_tables[s_names[n]], target_fields)

\* ------------------------------------- safe_stream_mysql_to_pytable
\* What a source row may hold in one field, by how PyTables answers row[f] = d:
\*   "ok"    a value the column stores as it is;
\*   "None"  NULL: an Int32Col answers TypeError, a StringCol or Float32Col
\*           stores numpy's conversion of None (b'None', nan);
\*   "txt"   a str the column answers with TypeError, and whose ASCII bytes it stores;
\*   "obj"   a value that is no str the column answers with TypeError
\*           (unicodedata.normalize then raises TypeError);
\*   "bad"   a value the column answers with another exception (ValueError).
Values == {"ok", "None", "txt", "obj", "bad"}
\* The values of the source tables the whole build reads.
BuildValues == {"ok", "bad"}

\* The exception of row[f] = d, or "none".
direct_assign(col, d) ==
    CASE d = "ok" -> "none"
      [] d = "None" -> IF col.type = "int32" THEN "TypeError" ELSE "none"
      [] d = "txt" -> "TypeError"
      [] d = "obj" -> "TypeError"
      [] d = "bad" -> "ValueError"

\* What the record holds after row[f] = d went through.
stored(d) == IF d = "None" THEN "coerced None" ELSE d

\* The exception of row[f] = unicodedata.normalize('NFKD', d).encode('ascii', 'ignore'), or "none".
retry_assign(d) == IF d = "txt" THEN "none" ELSE "TypeError"

column_of(descr, f) == (CHOOSE i \in DOMAIN descr : descr[i][1] = f)

\* The row buffer before any assignment: every column at its default.
default_row(descr) == [n \in {descr[i][1] : i \in DOMAIN descr} |-> "dflt"]

\* A faulty variant: the except branch has no retry, the TypeError of a value that is
\* not None leaves the loop.
RECURSIVE assign_fields_no_retry(_, _, _, _, _)
assign_fields_no_retry(row, descr, qry_fields, query_res, k) ==
    IF k > Len(qry_fields) \/ k > Len(query_res)
    THEN Returned(row)
    ELSE LET f == qry_fields[k]
             d == query_res[k]
         IN  IF f \notin DOMAIN row
             THEN Raised(Exc("KeyError"))
             ELSE LET e == direct_assign(descr[column_of(descr, f)][2], d)
                  IN  IF e = "none"
                      THEN assign_fields_no_retry([row EXCEPT ![f] = stored(d)], descr, qry_fields, query_res, k + 1)
                      ELSE IF e # "TypeError"
                      THEN Raised(Exc(e))
                      ELSE IF d = "None"
                      THEN assign_fields_no_retry(row, descr, qry_fields, query_res, k + 1)
                      ELSE Raised(Exc(e))

\* Lines 521-527 from the k-th (field, value) pair on: the record, or the
\* exception that left the loop.
RECURSIVE assign_fields(_, _, _, _, _)
assign_fields(row, descr, qry_fields, query_res, k) ==
    IF k > Len(qry_fields) \/ k > Len(query_res)
    THEN Returned(row)
    ELSE LET f == qry_fields[k]
             d == query_res[k]
         IN  IF f \notin DOMAIN row
             THEN Raised(Exc("KeyError"))
             ELSE LET e == direct_assign(descr[column_of(descr, f)][2], d)
                  IN  IF e = "none"
                      THEN assign_fields([row EXCEPT ![f] = stored(d)], descr, qry_fields, query_res, k + 1)
                      ELSE IF e # "TypeError"
                      THEN Raised(Exc(e))
                      ELSE IF d = "None"
                      THEN assign_fields(row, descr, qry_fields, query_res, k + 1)
                      ELSE IF retry_assign(d) = "none"
                      THEN assign_fields([row EXCEPT ![f] = "ascii"], descr, qry_fields, query_res, k + 1)
                      ELSE Raised(Exc(retry_assign(d)))

\* A faulty variant: a row with a value that took the except branch is not appended.
stream_row_drop_fallback(table, qry_fields, query_res) ==
    LET r == assign_fields(default_row(table.descr), table.descr, qry_fields, query_res, 1)
    IN  IF r.returned
        THEN IF \E k \in DOMAIN query_res : query_res[k] \in {"None", "txt"}
             THEN Returned(table.rows)
             ELSE Returned(Append(table.rows, r.value))
        ELSE r

\* A faulty variant: a row whose assignment raised is dropped and the loop goes on.
stream_row_swallow(table, qry_fields, query_res) ==
    LET r == assign_fields(default_row(table.descr), table.descr, qry_fields, query_res, 1)
    IN  IF r.returned
        THEN Returned(Append(table.rows, r.value))
        ELSE Returned(table.rows)

\* The column that the sources' id_key names (lines 375 and 445: the key is
\* handed to parse_mysql_source, which does not use it).
source_id_key == "id"

\* A faulty variant: a row whose id is that of a record of the table replaces
\* the record.
stream_row_merge_by_id(table, qry_fields, query_res) ==
    LET r == assign_fields(default_row(table.descr), table.descr, qry_fields, query_res, 1)
        same == {i \in DOMAIN table.rows :
                    /\ source_id_key \in DOMAIN r.value
                    /\ table.rows[i][source_id_key] = r.value[source_id_key]}
    IN  IF r.returned
        THEN IF same # {}
             THEN Returned([i \in DOMAIN table.rows |-> IF i \in same THEN r.value ELSE table.rows[i]])
             ELSE Returned(Append(table.rows, r.value))
        ELSE r

\* One turn of the loop of line 516: the table's rows after row.append(), or
\* the exception.
stream_row(table, qry_fields, query_res) ==
    LET r == assign_fields(default_row(table.descr), table.descr, qry_fields, query_res, 1)
    IN  IF r.returned
        THEN Returned(Append(table.rows, r.value))
        ELSE r

\* ---------------------------------------------------------------- state
VARIABLES
    pc,                  \* where the run is
    config,              \* the configuration file's content (read_config_file)
    db_schema,           \* the cursor description of each <<source, table>> peeked so far
    source_type_map,     \* self.source_type_map
    mysql_dbs,           \* the keys of self.mysql_dbs (the sources connected)
    h5_file,             \* self.h5_file: "none" before tables.open_file, then "open"
    source_field_lists,  \* self.source_field_lists: source -> table -> field names
    all_sources_fields,  \* _initialize_tables' list of (name, Col) of the node type at hand
    node_tables_pre,     \* _initialize_tables' dict label -> table description
    tables,              \* the tables of the HDF5 file: label -> [descr, rows]
    nodes,               \* self.nodes: label -> the NodeType's sources
    error,               \* the exception that ended the run, or NoExc
    ni,                  \* the node type a loop is at (place in config.labels)
    si,                  \* the source a loop is at
    cursor,              \* the open cursor: the rows of its result set (n), those fetched (k)
    last_merge,          \* the last call of merge_fields: its argument and outcome
    call                 \* the call of safe_stream_mysql_to_pytable at hand: the table's
                         \* rows at its entry and the rows its cursor has yielded

vars == <<pc, config, db_schema, source_type_map, mysql_dbs, h5_file, source_field_lists,
          all_sources_fields, node_tables_pre, tables, nodes, error, ni, si, cursor,
          last_merge, call>>

EmptyFn == [x \in {} |-> TRUE]
NoMerge == [called |-> FALSE, arg |-> <<>>, outcome |-> Raised(NoExc)]
NoCall == [label |-> "none", rows_before |-> <<>>, yielded |-> <<>>]
NoCursor == [n |-> 0, k |-> 0]

\* The source lists a node type may be configured with: no source twice (the
\* sources of a node type are the keys of a dict).
SourceLists == DistinctSeqsOf(SourceNames, 0, Cardinality(SourceNames))

\* The configurations: every source of SourceOrder under Sources, one or two
\* node types under Nodes, each of their sources with its table.
Configs ==
    {[kind |-> k, labels |-> l, sources |-> s, table |-> t] :
        k \in [SourceNames -> SourceKinds],
        l \in {SubSeq(NodeLabels, 1, n) : n \in 1..Len(NodeLabels)},
        s \in [Range(NodeLabels) -> SourceLists],
        t \in [Range(NodeLabels) -> [SourceNames -> TableNames]]}

\* Every source is read from its first table.
FirstTables == [l \in Range(NodeLabels) |-> [s \in SourceNames |-> "t"]]

\* Up to the names of the tables, the tables of a configuration: the first
\* node type reads the first table of each of its sources, and a later node
\* type reads that table or another one of a source it shares with the first.
TablesInUse(c) ==
    \A i \in DOMAIN NodeLabels : \A s \in SourceNames :
        (\/ i = 1
         \/ i > Len(c.labels)
         \/ s \notin Range(c.sources[NodeLabels[i]])
         \/ s \notin Range(c.sources[NodeLabels[1]]))
            => c.table[NodeLabels[i]][s] = "t"

cur_label == config.labels[ni]
cur_sources == config.sources[cur_label]
\* s_config['table'] of a source of the node type at hand.
cur_table(s) == config.table[cur_label][s]
\* The description of the table a node type reads of a source, once peeked.
schema_of(label, s) == db_schema[<<s, config.table[label][s]>>]
peeked(label, s) == <<s, config.table[label][s]>> \in DOMAIN db_schema

\* The configurations as read: a node type that is not configured has no
\* sources.
ConfigsRead ==
    {c \in Configs : /\ \A i \in DOMAIN NodeLabels :
                            i > Len(c.labels) => c.sources[NodeLabels[i]] = <<>>
                     /\ TablesInUse(c)}

\* The state at the entry of GraphDBBuilder.__init__, the configuration
\* (one of cs) read.
InitOver(cs) ==
    /\ config \in cs
    /\ pc = "process_config"
    /\ db_schema = EmptyFn
    /\ source_type_map = EmptyFn
    /\ mysql_dbs = {}
    /\ h5_file = "none"
    /\ source_field_lists = EmptyFn
    /\ all_sources_fields = <<>>
    /\ node_tables_pre = EmptyFn
    /\ tables = EmptyFn
    /\ nodes = EmptyFn
    /\ error = NoExc
    /\ ni = 1
    /\ si = 1
    /\ cursor = NoCursor
    /\ last_merge = NoMerge
    /\ call = NoCall

\* In the whole build every source is read from one table.
Init == InitOver({c \in ConfigsRead : c.table = FirstTables})

\* --------------------------------------------------- _process_config
\* A faulty variant: a source of another type is passed over with a warning.
ProcessSource_skip ==
    /\ pc = "process_config"
    /\ si <= Len(SourceOrder)
    /\ LET s == SourceOrder[si]
       IN  /\ source_type_map' = (s :> config.kind[s]) @@ source_type_map
           /\ IF config.kind[s] = "mysql"
              THEN \E connected \in BOOLEAN :
                        mysql_dbs' = IF connected THEN mysql_dbs \cup {s} ELSE mysql_dbs
              ELSE UNCHANGED mysql_dbs
           /\ si' = si + 1
           /\ UNCHANGED <<pc, error>>
    /\ UNCHANGED <<config, db_schema, h5_file, source_field_lists, all_sources_fields,
                   node_tables_pre, tables, nodes, ni, cursor, last_merge, call>>

\* Lines 306-321, one source of config['Sources']: a mysql source is
\* connected, or the connection fails and a warning is printed ("Skipping this
\* source"); any other source type raises NotImplementedError, which the
\* except KeyError of line 325 does not catch.
ProcessSource ==
    /\ pc = "process_config"
    /\ si <= Len(SourceOrder)
    /\ LET s == SourceOrder[si]
       IN  /\ source_type_map' = (s :> config.kind[s]) @@ source_type_map
           /\ IF config.kind[s] = "mysql"
              THEN /\ \E connected \in BOOLEAN :
                        mysql_dbs' = IF connected THEN mysql_dbs \cup {s} ELSE mysql_dbs
                   /\ si' = si + 1
                   /\ UNCHANGED <<pc, error>>
              ELSE /\ pc' = "raised"
                   /\ error' = Exc("NotImplementedError")
                   /\ UNCHANGED <<mysql_dbs, si>>
    /\ UNCHANGED <<config, db_schema, h5_file, source_field_lists, all_sources_fields,
                   node_tables_pre, tables, nodes, ni, cursor, last_merge, call>>

\* Line 323, and lines 148-155 of _initialize_tables: the HDF5 file is opened.
OpenFile ==
    /\ pc = "process_config"
    /\ si > Len(SourceOrder)
    /\ pc' = "peek"
    /\ h5_file' = "open"
    /\ ni' = 1
    /\ si' = 1
    /\ UNCHANGED <<config, db_schema, source_type_map, mysql_dbs, source_field_lists,
                   all_sources_fields, node_tables_pre, tables, nodes, error, cursor,
                   last_merge, call>>

\* ------------------------------------------------- _initialize_tables
\* Lines 168-196, one source of the node type at hand: self.mysql_dbs[s_name]
\* raises KeyError for a source that was not connected; the peek yields the
\* table's description (the same at every peek of one table), and the field
\* names are cached under the source and the table (lines 183-187).
PeekSource ==
    /\ pc = "peek"
    /\ si <= Len(cur_sources)
    /\ LET s == cur_sources[si]
       IN  IF source_type_map[s] # "mysql"
           THEN /\ pc' = "raised"
                /\ error' = Exc("NotImplementedError")
                /\ UNCHANGED <<db_schema, source_field_lists, all_sources_fields, si>>
           ELSE IF s \notin mysql_dbs
           THEN /\ pc' = "raised"
                /\ error' = Exc("KeyError")
                /\ UNCHANGED <<db_schema, source_field_lists, all_sources_fields, si>>
           ELSE \E d \in (IF peeked(cur_label, s) THEN {schema_of(cur_label, s)}
                          ELSE Descriptions(FieldNames, TypeCodes)) :
                LET field_descr == description_to_fields(d)
                    of_source == IF s \in DOMAIN source_field_lists
                                 THEN source_field_lists[s] ELSE EmptyFn
                IN  /\ db_schema' = (<<s, cur_table(s)>> :> d) @@ db_schema
                    /\ source_field_lists' =
                          (s :> (IF cur_table(s) \in DOMAIN of_source THEN of_source
                                 ELSE (cur_table(s) :> field_names_of(field_descr)) @@ of_source))
                              @@ source_field_lists
                    /\ all_sources_fields' = all_sources_fields \o types_structured_of(field_descr)
                    /\ si' = si + 1
                    /\ UNCHANGED <<pc, error>>
    /\ UNCHANGED <<config, source_type_map, mysql_dbs, h5_file, node_tables_pre, tables,
                   nodes, ni, cursor, last_merge, call>>

\* A faulty variant: the fields are merged when the last source of the node type
\* is still to be peeked.
MergeNode_early ==
    /\ pc = "peek"
    /\ si >= Len(cur_sources)
    /\ \E field_names_unique \in Perms({all_sources_fields[i][1] : i \in DOMAIN all_sources_fields}) :
        LET r == merge_fields(all_sources_fields, field_names_unique)
        IN  /\ last_merge' = [called |-> TRUE, arg |-> all_sources_fields, outcome |-> r]
            /\ IF r.returned
               THEN /\ node_tables_pre' = (cur_label :> make_table_dict_descr(r.value)) @@ node_tables_pre
                    /\ all_sources_fields' = <<>>
                    /\ si' = 1
                    /\ IF ni < Len(config.labels)
                       THEN ni' = ni + 1 /\ pc' = pc
                       ELSE ni' = 1 /\ pc' = "make_tables"
                    /\ UNCHANGED error
               ELSE /\ pc' = "raised"
                    /\ error' = r.raised
                    /\ UNCHANGED <<node_tables_pre, all_sources_fields, ni, si>>
    /\ UNCHANGED <<config, db_schema, source_type_map, mysql_dbs, h5_file, source_field_lists,
                   tables, nodes, cursor, call>>

\* Lines 199-205: the fields of every source of the node type are merged; the
\* list starts empty again for the next node type (line 167).
MergeNode ==
    /\ pc = "peek"
    /\ si > Len(cur_sources)
    /\ \E field_names_unique \in Perms({all_sources_fields[i][1] : i \in DOMAIN all_sources_fields}) :
        LET r == merge_fields(all_sources_fields, field_names_unique)
        IN  /\ last_merge' = [called |-> TRUE, arg |-> all_sources_fields, outcome |-> r]
            /\ IF r.returned
               THEN /\ node_tables_pre' = (cur_label :> make_table_dict_descr(r.value)) @@ node_tables_pre
                    /\ all_sources_fields' = <<>>
                    /\ si' = 1
                    /\ IF ni < Len(config.labels)
                       THEN ni' = ni + 1 /\ pc' = pc
                       ELSE ni' = 1 /\ pc' = "make_tables"
                    /\ UNCHANGED error
               ELSE /\ pc' = "raised"
                    /\ error' = r.raised
                    /\ UNCHANGED <<node_tables_pre, all_sources_fields, ni, si>>
    /\ UNCHANGED <<config, db_schema, source_type_map, mysql_dbs, h5_file, source_field_lists,
                   tables, nodes, cursor, call>>

\* Lines 208-212 with _store_table_details: the table of one node type is
\* created and every configured source is bound to it.  After the last one
\* _initialize_tables and __init__ return.
MakeTable ==
    /\ pc = "make_tables"
    /\ LET fields == node_tables_pre[cur_label]
       IN  /\ tables' = (cur_label :> [descr |-> fields, rows |-> <<>>]) @@ tables
           /\ nodes' = (cur_label :> store_sources(cur_sources, config.table[cur_label],
                                                   source_field_lists, fields)) @@ nodes
    /\ IF ni < Len(config.labels)
       THEN ni' = ni + 1 /\ pc' = pc
       ELSE ni' = 1 /\ pc' = "constructed"
    /\ UNCHANGED <<config, db_schema, source_type_map, mysql_dbs, h5_file, source_field_lists,
                   all_sources_fields, node_tables_pre, error, si, cursor, last_merge, call>>

\* -------------------------------------------------------- parse_nodes
\* build_hdf5_database is called on the builder __init__ returned.
BuildStart ==
    /\ pc = "constructed"
    /\ pc' = "parse_nodes"
    /\ ni' = 1
    /\ si' = 1
    /\ UNCHANGED <<config, db_schema, source_type_map, mysql_dbs, h5_file, source_field_lists,
                   all_sources_fields, node_tables_pre, tables, nodes, error, cursor,
                   last_merge, call>>

\* next(s for s in sources if s['source_name'] == source_name)
this_source(sources, source_name) ==
    sources[CHOOSE i \in DOMAIN sources :
                /\ sources[i].source_name = source_name
                /\ \A j \in 1..(i - 1) : sources[j].source_name # source_name]

\* Lines 340-342, 363-385 and 481-486, one source of one node type: a mysql
\* source is queried (SELECT * FROM table) and its cursor handed to
\* safe_stream_mysql_to_pytable; a source of another type is passed over.
Dispatch ==
    /\ pc = "parse_nodes"
    /\ LET s == cur_sources[si]
       IN  IF source_type_map[s] = "mysql"
           THEN IF s \in mysql_dbs
                THEN /\ \E n \in 0..MaxRows : cursor' = [n |-> n, k |-> 0]
                     /\ call' = [label |-> cur_label, rows_before |-> tables[cur_label].rows,
                                 yielded |-> <<>>]
                     /\ pc' = "stream"
                     /\ UNCHANGED <<error, ni, si>>
                ELSE /\ pc' = "raised"
                     /\ error' = Exc("KeyError")
                     /\ UNCHANGED <<cursor, call, ni, si>>
           ELSE /\ IF si < Len(cur_sources)
                   THEN si' = si + 1 /\ ni' = ni /\ pc' = pc
                   ELSE IF ni < Len(config.labels)
                   THEN si' = 1 /\ ni' = ni + 1 /\ pc' = pc
                   ELSE si' = 1 /\ ni' = 1 /\ pc' = "parse_relationships"
                /\ UNCHANGED <<cursor, call, error>>
    /\ UNCHANGED <<config, db_schema, source_type_map, mysql_dbs, h5_file, source_field_lists,
                   all_sources_fields, node_tables_pre, tables, nodes, last_merge>>

\* Lines 516-530, one row of the cursor, its values drawn from vals: the record
\* is appended, or an exception leaves safe_stream_mysql_to_pytable,
\* parse_mysql_source, parse_nodes and build_hdf5_database, none of which
\* catches it.
StreamRowOver(vals) ==
    /\ pc = "stream"
    /\ cursor.k < cursor.n
    /\ LET b == this_source(nodes[cur_label], cur_sources[si])
       IN  \E query_res \in [1..Len(b.field_names) -> vals] :
             LET r == stream_row(tables[cur_label], b.field_names, query_res)
             IN  /\ cursor' = [cursor EXCEPT !.k = @ + 1]
                 /\ call' = [call EXCEPT !.yielded = Append(@, query_res)]
                 /\ IF r.returned
                    THEN /\ tables' = [tables EXCEPT ![cur_label].rows = r.value]
                         /\ UNCHANGED <<pc, error>>
                    ELSE /\ pc' = "raised"
                         /\ error' = r.raised
                         /\ UNCHANGED tables
    /\ UNCHANGED <<config, db_schema, source_type_map, mysql_dbs, h5_file, source_field_lists,
                   all_sources_fields, node_tables_pre, nodes, ni, si, last_merge>>

\* A faulty variant: the failure of a fetch ends the source's stream only, and
\* parse_nodes goes on to the next source.
FetchError_next_source ==
    /\ pc = "stream"
    /\ cursor.k < cursor.n
    /\ cursor' = [cursor EXCEPT !.k = @ + 1]
    /\ error' = Exc("mysql.connector.Error")
    /\ IF si < Len(cur_sources)
       THEN si' = si + 1 /\ ni' = ni /\ pc' = "parse_nodes"
       ELSE IF ni < Len(config.labels)
       THEN si' = 1 /\ ni' = ni + 1 /\ pc' = "parse_nodes"
       ELSE si' = 1 /\ ni' = 1 /\ pc' = "parse_relationships"
    /\ UNCHANGED <<config, db_schema, source_type_map, mysql_dbs, h5_file, source_field_lists,
                   all_sources_fields, node_tables_pre, tables, nodes, last_merge, call>>

\* Line 516, the iteration over the cursor: the fetch of the next row fails
\* (the connection is lost, say) and mysql.connector raises; no row reaches
\* the loop's body, and the exception leaves safe_stream_mysql_to_pytable,
\* parse_mysql_source, parse_nodes and build_hdf5_database, none of which
\* catches it.  cursor.k counts the fetches made, the failed one included.
FetchError ==
    /\ pc = "stream"
    /\ cursor.k < cursor.n
    /\ cursor' = [cursor EXCEPT !.k = @ + 1]
    /\ pc' = "raised"
    /\ error' = Exc("mysql.connector.Error")
    /\ UNCHANGED <<config, db_schema, source_type_map, mysql_dbs, h5_file, source_field_lists,
                   all_sources_fields, node_tables_pre, tables, nodes, ni, si, last_merge, call>>

\* In the whole build the rows hold BuildValues; on its own the function is
\* entered with rows of Values.
StreamRow == StreamRowOver(BuildValues)
StreamAnyRow == StreamRowOver(Values)

\* Line 543: the cursor is exhausted, safe_stream_mysql_to_pytable returns 1,
\* and parse_nodes goes on to the next source, the next node type, or returns.
StreamEnd ==
    /\ pc = "stream"
    /\ cursor.k = cursor.n
    /\ IF si < Len(cur_sources)
       THEN si' = si + 1 /\ ni' = ni /\ pc' = "parse_nodes"
       ELSE IF ni < Len(config.labels)
       THEN si' = 1 /\ ni' = ni + 1 /\ pc' = "parse_nodes"
       ELSE si' = 1 /\ ni' = 1 /\ pc' = "parse_relationships"
    /\ UNCHANGED <<config, db_schema, source_type_map, mysql_dbs, h5_file, source_field_lists,
                   all_sources_fields, node_tables_pre, tables, nodes, error, cursor,
                   last_merge, call>>

\* Line 132: parse_relationships (the definition of line 404, which replaces
\* that of line 344) does nothing; build_hdf5_database returns.
ParseRelationships ==
    /\ pc = "parse_relationships"
    /\ pc' = "done"
    /\ UNCHANGED <<config, db_schema, source_type_map, mysql_dbs, h5_file, source_field_lists,
                   all_sources_fields, node_tables_pre, tables, nodes, error, ni, si, cursor,
                   last_merge, call>>

Next ==
    \/ ProcessSource
    \/ OpenFile
    \/ PeekSource
    \/ MergeNode
    \/ MakeTable
    \/ BuildStart
    \/ Dispatch
    \/ StreamRow
    \/ FetchError
    \/ StreamEnd
    \/ ParseRelationships

Spec == Init /\ [][Next]_vars

\* --------------------------------------------- __init__ on its own
\* The constructor, the sources read from one table or from two:
\* _process_config and _initialize_tables up to the return of __init__.
InitTables == InitOver(ConfigsRead)

NextTables ==
    \/ ProcessSource
    \/ OpenFile
    \/ PeekSource
    \/ MergeNode
    \/ MakeTable

SpecTables == InitTables /\ [][NextTables]_vars

\* ------------------------------------------------ merge_fields on its own
AllMysql == [s \in SourceNames |-> "mysql"]

\* The state at line 199 for the first node type, whose sources (the first m
\* of SourceOrder) have been peeked: any description for each.
InitMerge ==
    \E m \in 0..Len(SourceOrder) :
    \E ds \in [1..m -> Descriptions(MergeFieldNames, MergeTypeCodes)] :
        /\ config = [kind |-> AllMysql, labels |-> <<NodeLabels[1]>>,
                     sources |-> [l \in Range(NodeLabels) |->
                                    IF l = NodeLabels[1] THEN SubSeq(SourceOrder, 1, m) ELSE <<>>],
                     table |-> FirstTables]
        /\ pc = "peek"
        /\ db_schema = [x \in {<<SourceOrder[i], "t">> : i \in 1..m} |->
                            ds[CHOOSE i \in 1..m : SourceOrder[i] = x[1]]]
        /\ source_type_map = AllMysql
        /\ mysql_dbs = SourceNames
        /\ h5_file = "open"
        /\ source_field_lists = [s \in {SourceOrder[i] : i \in 1..m} |->
                ("t" :> field_names_of(description_to_fields(ds[CHOOSE i \in 1..m : SourceOrder[i] = s])))]
        /\ all_sources_fields =
                Flatten([i \in 1..m |-> types_structured_of(description_to_fields(ds[i]))])
        /\ node_tables_pre = EmptyFn
        /\ tables = EmptyFn
        /\ nodes = EmptyFn
        /\ error = NoExc
        /\ ni = 1
        /\ si = m + 1
        /\ cursor = NoCursor
        /\ last_merge = NoMerge
        /\ call = NoCall

NextMerge == MergeNode

SpecMerge == InitMerge /\ [][NextMerge]_vars

\* ------------------------- safe_stream_mysql_to_pytable on its own
\* The Cols of the columns the build's tables have.
BuildCols == {map_pytables[FieldType_get_info[c]] : c \in TypeCodes}

\* The table descriptions that hold every field of a source's description d.
TablesHolding(d) ==
    {t \in SeqsOf(FieldNames \X BuildCols, 1, Cardinality(FieldNames)) :
        /\ Cardinality({t[i][1] : i \in DOMAIN t}) = Len(t)
        /\ Range(types_structured_of(description_to_fields(d))) \subseteq Range(t)}

\* The state at line 515 for source A of node type X: any description of the
\* source's table, any destination table that holds its fields, up to MaxPrior
\* records in the table, a cursor of up to MaxRows rows.
InitStream ==
    \E d \in Descriptions(FieldNames, TypeCodes) :
    \E t \in TablesHolding(d) :
    \E prior \in 0..MaxPrior, n \in 0..MaxRows :
        LET rows == [i \in 1..prior |-> [c \in {t[j][1] : j \in DOMAIN t} |-> "ok"]]
            names == field_names_of(description_to_fields(d))
        IN  /\ config = [kind |-> AllMysql, labels |-> <<NodeLabels[1]>>,
                         sources |-> [l \in Range(NodeLabels) |->
                                        IF l = NodeLabels[1] THEN <<SourceOrder[1]>> ELSE <<>>],
                         table |-> FirstTables]
            /\ pc = "stream"
            /\ db_schema = (<<SourceOrder[1], "t">> :> d)
            /\ source_type_map = AllMysql
            /\ mysql_dbs = SourceNames
            /\ h5_file = "open"
            /\ source_field_lists = (SourceOrder[1] :> ("t" :> names))
            /\ all_sources_fields = <<>>
            /\ node_tables_pre = (NodeLabels[1] :> t)
            /\ tables = (NodeLabels[1] :> [descr |-> t, rows |-> rows])
            /\ nodes = (NodeLabels[1] :> add_source_to_node_type(<<>>, SourceOrder[1] :> ("t" :> names),
                                                                  SourceOrder[1], "t", t))
            /\ error = NoExc
            /\ ni = 1
            /\ si = 1
            /\ cursor = [n |-> n, k |-> 0]
            /\ last_merge = NoMerge
            /\ call = [label |-> NodeLabels[1], rows_before |-> rows, yielded |-> <<>>]

NextStream ==
    \/ StreamAnyRow
    \/ StreamEnd

SpecStream == InitStream /\ [][NextStream]_vars

\* =================================================================
\* Properties of merge_fields (under SpecMerge)
\* =================================================================
\* The names that the argument gives with two different types.
ConflictingNames(fields) ==
    {fields[i][1] : i \in {i \in DOMAIN fields :
        \E j \in DOMAIN fields : /\ fields[j][1] = fields[i][1]
                                 /\ fields[j][2].type # fields[i][2].type}}

\* The types the argument gives for a name.
ObservedTypes(fields, name) ==
    {fields[i][2].type : i \in {i \in DOMAIN fields : fields[i][1] = name}}

\* The names that the argument gives more than once.
SharedNames(fields) ==
    {fields[i][1] : i \in {i \in DOMAIN fields :
        \E j \in DOMAIN fields : j # i /\ fields[j][1] = fields[i][1]}}

\* C1, as the specification states it: when some field name occurs with two
\* different resolved types, merge_fields returns no schema and fails with an
\* error that names such a field and the types observed for it.
C1_ConflictErrorNamesField ==
    (last_merge.called /\ ConflictingNames(last_merge.arg) # {}) =>
        /\ ~last_merge.outcome.returned
        /\ \E n \in ConflictingNames(last_merge.arg) :
              last_merge.outcome.raised.args = <<n, ObservedTypes(last_merge.arg, n)>>

\* C1, amended: when some field name occurs with two different resolved
\* types, merge_fields returns no schema (neither a partial list nor one that
\* picked a type) and fails with an AssertionError that carries no message:
\* neither the field name nor the types.
C1_ConflictRaisesBareAssertion ==
    (last_merge.called /\ ConflictingNames(last_merge.arg) # {}) =>
        /\ ~last_merge.outcome.returned
        /\ last_merge.outcome.value = <<>>
        /\ last_merge.outcome.raised = [type |-> "AssertionError", args |-> <<>>]
        /\ node_tables_pre = EmptyFn

C1_Witness ==
    /\ last_merge.called
    /\ ConflictingNames(last_merge.arg) # {}
    /\ Len(cur_sources) = 2
    /\ pc = "raised"

\* C6: when merge_fields returns and a field name is given by two or more
\* sources (with one type, or the call would not return), the schema returned
\* has exactly one field of that name, and it carries that type.
C6_SharedNameOnce ==
    (last_merge.called /\ last_merge.outcome.returned) =>
        \A n \in SharedNames(last_merge.arg) :
            LET merged == last_merge.outcome.value
                at == {i \in DOMAIN merged : merged[i][1] = n}
            IN  /\ Cardinality(at) = 1
                /\ \A i \in at : \A j \in DOMAIN last_merge.arg :
                      last_merge.arg[j][1] = n => merged[i][2] = last_merge.arg[j][2]

C6_Witness ==
    /\ last_merge.called
    /\ last_merge.outcome.returned
    /\ SharedNames(last_merge.arg) # {}
    /\ Len(last_merge.outcome.value) = 2

\* C7: when the field names of the sources (one source at least) are pairwise
\* disjoint, merge_fields returns, and the (name, type) pairs it returns are
\* those of the sources: none dropped, none invented, every type kept.
C7_DisjointUnion ==
    (last_merge.called /\ last_merge.arg # <<>> /\ SharedNames(last_merge.arg) = {}) =>
        /\ last_merge.outcome.returned
        /\ Range(last_merge.outcome.value) = Range(last_merge.arg)
        /\ Len(last_merge.outcome.value) = Len(last_merge.arg)

C7_Witness ==
    /\ last_merge.called
    /\ Len(cur_sources) = 2
    /\ SharedNames(last_merge.arg) = {}
    /\ Len(last_merge.arg) = 3
    /\ last_merge.outcome.returned

\* =================================================================
\* Properties of the whole build (under Spec)
\* =================================================================
\* The column names of the table a node type reads of a source, as the
\* source describes them.
SourceColumns(label, s) == [i \in DOMAIN schema_of(label, s) |-> schema_of(label, s)[i][1]]

\* The sources of a node type have all been peeked, and two of them describe
\* one field name with different types.
SourcesConflict(label) ==
    /\ \A i \in DOMAIN config.sources[label] : peeked(label, config.sources[label][i])
    /\ \E i, j \in DOMAIN config.sources[label] :
        LET a == schema_of(label, config.sources[label][i])
            b == schema_of(label, config.sources[label][j])
        IN  \E x \in DOMAIN a, y \in DOMAIN b : a[x][1] = b[y][1] /\ a[x][2] # b[y][2]

\* C2: when the sources of a node type describe one field name with different
\* types, the build is still in table initialization or has been ended by the
\* assertion of merge_fields, and the HDF5 file has no table for the node type
\* (nor for any other).
C2_ConflictNoTable ==
    \A n \in DOMAIN config.labels :
        SourcesConflict(config.labels[n]) =>
            /\ config.labels[n] \notin DOMAIN tables
            /\ tables = EmptyFn
            /\ nodes = EmptyFn
            /\ pc \in {"peek", "raised"}
            /\ pc = "raised" => error.type = "AssertionError"

C2_Witness ==
    /\ Len(config.labels) = 2
    /\ ~SourcesConflict(config.labels[1])
    /\ SourcesConflict(config.labels[2])
    /\ pc = "raised"
    /\ error.type = "AssertionError"
    /\ config.labels[1] \in DOMAIN node_tables_pre
    /\ tables = EmptyFn

\* C3: every source binding of every node type has a field_idx_map as long as
\* the table's schema; its i-th entry is absent exactly when the i-th field of
\* the schema is no column of the source's table, and is otherwise the
\* (0-based) place of that field among the source's columns.
C3_IndexMap ==
    \A l \in DOMAIN nodes : \A k \in DOMAIN nodes[l] :
        LET b == nodes[l][k]
            C == tables[l].descr
            cols == SourceColumns(l, b.source_name)
        IN  /\ Len(b.field_idx_map) = Len(C)
            /\ \A i \in DOMAIN C :
                /\ b.field_idx_map[i] = Absent <=> C[i][1] \notin Range(cols)
                /\ b.field_idx_map[i] # Absent =>
                      /\ b.field_idx_map[i] \in 0..(Len(cols) - 1)
                      /\ cols[b.field_idx_map[i] + 1] = C[i][1]

C3_Witness ==
    \E l \in DOMAIN nodes :
        /\ Len(nodes[l]) = 2
        /\ Len(tables[l].descr) = 2
        /\ nodes[l][1].field_idx_map \in {<<0, Absent>>, <<Absent, 0>>}
        /\ nodes[l][2].field_idx_map = <<1, 0>>

\* A source of mysql type whose connection failed in _process_config.
Unavailable(s) ==
    /\ s \in DOMAIN source_type_map
    /\ source_type_map[s] = "mysql"
    /\ s \notin mysql_dbs
    /\ (pc = "process_config" => \E i \in 1..(si - 1) : SourceOrder[i] = s)

\* C9, as the specification states it: when one source of a node type is
\* unavailable and another source of the same node type is connected, the
\* work on that node type is not ended by the missing connection (the source
\* is dropped and table initialization goes on).
C9_UnavailableSourceDropped ==
    \A n \in DOMAIN config.labels :
        LET ss == Range(config.sources[config.labels[n]])
        IN  (\E s \in ss : Unavailable(s)) /\ (\E s \in ss : s \in mysql_dbs) =>
                ~(pc = "raised" /\ error.type = "KeyError" /\ ni = n)

\* C10, as the specification states it: a source of a type other than mysql
\* does not end the build, which has a mysql source of some node type to go on
\* with (the other source is passed over with a warning).
C10_OtherKindNotFatal ==
    (/\ \E s \in SourceNames : config.kind[s] # "mysql"
     /\ \E n \in DOMAIN config.labels : \E s \in Range(config.sources[config.labels[n]]) :
            config.kind[s] = "mysql") =>
        ~(pc = "raised" /\ error.type = "NotImplementedError")

\* C10, amended: a source of a type other than mysql is fatal for the whole
\* build, whether a node type uses it or not: the build never leaves
\* _process_config, which raises NotImplementedError at that source; the HDF5
\* file is not opened, no table is made and no row is streamed.
C10_OtherKindEndsBuild ==
    (\E s \in SourceNames : config.kind[s] # "mysql") =>
        /\ pc \in {"process_config", "raised"}
        /\ pc = "raised" => error.type = "NotImplementedError"
        /\ \A s \in DOMAIN source_type_map : source_type_map[s] # "mysql" => pc = "raised"
        /\ h5_file = "none"
        /\ tables = EmptyFn
        /\ call = NoCall

C10_Witness ==
    /\ config.kind = [s \in SourceNames |-> IF s = SourceOrder[1] THEN "mysql" ELSE "csv"]
    /\ Len(config.labels) = 2
    /\ \A n \in DOMAIN config.labels : config.sources[config.labels[n]] = <<SourceOrder[1]>>
    /\ SourceOrder[1] \in mysql_dbs
    /\ pc = "raised"
    /\ error.type = "NotImplementedError"

\* =================================================================
\* Properties of safe_stream_mysql_to_pytable (under SpecStream)
\* =================================================================
\* The call at hand: its table, its source's field names, the records it has
\* appended, the row its cursor yielded last.
CallTable == tables[call.label]
CallFields == this_source(nodes[call.label], cur_sources[si]).field_names
Appended == Len(CallTable.rows) - Len(call.rows_before)
LastRow == call.yielded[cursor.k]
CallOver == pc # "stream"
ColumnType(f) == CallTable.descr[column_of(CallTable.descr, f)][2]

\* The direct assignment of the j-th value of a row raises TypeError.
DirectTypeError(row, j) == direct_assign(ColumnType(CallFields[j]), row[j]) = "TypeError"
\* ... raises another exception.
DirectOtherError(row, j) == direct_assign(ColumnType(CallFields[j]), row[j]) \notin {"none", "TypeError"}
\* The j-th value takes the except branch and is not None, and is no str.
RetryFails(row, j) == DirectTypeError(row, j) /\ row[j] = "obj"
\* The assignments of the row fail beyond what the except branch recovers.
Unrecoverable(row) == \E j \in DOMAIN row : DirectOtherError(row, j) \/ RetryFails(row, j)
\* The first assignment of the row that does.
FirstFailure(row) ==
    CHOOSE j \in DOMAIN row :
        /\ DirectOtherError(row, j) \/ RetryFails(row, j)
        /\ \A i \in 1..(j - 1) : ~(DirectOtherError(row, i) \/ RetryFails(row, i))

\* C4, as the specification states it: once the call is over, the table holds
\* exactly N records more than at its entry, N the number of rows of the
\* cursor, whatever the number of values that are null or take the fallback
\* (rows in which every direct assignment goes through or raises TypeError).
C4_AppendsAllRows ==
    (/\ CallOver
     /\ \A i \in DOMAIN call.yielded : \A j \in DOMAIN call.yielded[i] :
            ~DirectOtherError(call.yielded[i], j)) =>
        Appended = cursor.n

\* C4, amended: a call that returns has appended exactly N records, N the
\* number of rows of the cursor, whatever the number of values that are null
\* or took the fallback; a call that an exception leaves at its k-th row has
\* appended exactly the k - 1 rows before it; and after k rows of a running
\* call the table holds k records more.
C4_AppendsRowsRead ==
    /\ pc = "stream" => Appended = cursor.k
    /\ pc = "raised" => Appended = cursor.k - 1
    /\ pc \notin {"stream", "raised"} => cursor.k = cursor.n /\ Appended = cursor.n

C4_Witness ==
    /\ pc \notin {"stream", "raised"}
    /\ cursor.n = 2
    /\ Appended = 2
    /\ \E i \in DOMAIN call.yielded : "None" \in Range(call.yielded[i])
    /\ \E i \in DOMAIN call.yielded : "txt" \in Range(call.yielded[i])

\* C5, as the specification states it, for the pairs of the row read last
\* (a row whose direct assignments go through or raise TypeError): a value
\* that is not null and whose direct assignment fails is retried and the retry
\* succeeds, so the record holds its ASCII bytes; a null leaves the column's
\* default in the record; no exception ends the row.
C5_FallbackAlwaysSucceeds ==
    (cursor.k >= 1 /\ \A j \in DOMAIN LastRow : ~DirectOtherError(LastRow, j)) =>
        /\ pc # "raised"
        /\ Appended = cursor.k
        /\ \A j \in DOMAIN LastRow :
            LET rec == CallTable.rows[Len(CallTable.rows)]
            IN  /\ LastRow[j] = "None" => rec[CallFields[j]] = "dflt"
                /\ (LastRow[j] # "None" /\ DirectTypeError(LastRow, j)) => rec[CallFields[j]] = "ascii"

\* C5, amended, for the pairs of the row read last (as above): a value that is
\* not null and whose direct assignment raises TypeError is retried through
\* NFKD normalization and ASCII encoding; the retry goes through for a str
\* (the record holds the ASCII bytes) and raises TypeError, which ends the
\* stream with no record for the row, for a value that is no str.  A null
\* whose direct assignment raises TypeError (an Int32Col) is passed over: the
\* record holds the column's default and nothing is raised; a null the column
\* takes (a StringCol) is stored as converted.  A field the source lacks is at
\* its default.
C5_FallbackByValue ==
    (cursor.k >= 1 /\ \A j \in DOMAIN LastRow : ~DirectOtherError(LastRow, j)) =>
        IF \E j \in DOMAIN LastRow : RetryFails(LastRow, j)
        THEN /\ pc = "raised"
             /\ error = [type |-> "TypeError", args |-> <<>>]
             /\ Appended = cursor.k - 1
        ELSE /\ pc # "raised"
             /\ Appended = cursor.k
             /\ LET rec == CallTable.rows[Len(CallTable.rows)]
                IN  /\ \A j \in DOMAIN LastRow :
                        rec[CallFields[j]] =
                            IF LastRow[j] = "None"
                            THEN (IF DirectTypeError(LastRow, j) THEN "dflt" ELSE "coerced None")
                            ELSE IF DirectTypeError(LastRow, j) THEN "ascii" ELSE LastRow[j]
                    /\ \A f \in DOMAIN rec : f \notin Range(CallFields) => rec[f] = "dflt"

C5_Witness ==
    /\ cursor.k >= 1
    /\ pc # "raised"
    /\ Len(LastRow) = 2
    /\ \E j \in DOMAIN LastRow :
          /\ LastRow[j] = "None"
          /\ ColumnType(CallFields[j]).type = "int32"
          /\ CallTable.rows[Len(CallTable.rows)][CallFields[j]] = "dflt"
    /\ \E j \in DOMAIN LastRow :
          /\ LastRow[j] = "txt"
          /\ CallTable.rows[Len(CallTable.rows)][CallFields[j]] = "ascii"

\* C8, as the specification states it: when an assignment of the row read last
\* fails beyond recovery and the cursor has rows left, the row is dropped (no
\* record for it) and the stream goes on with the next row.
C8_BadRowDroppedStreamGoesOn ==
    (cursor.k >= 1 /\ cursor.k < cursor.n /\ Unrecoverable(LastRow)) =>
        /\ pc = "stream"
        /\ Appended <= cursor.k - 1

\* C8, amended: when an assignment of the row read last fails beyond recovery,
\* no record is appended for the row and the records appended before stay,
\* but the exception leaves safe_stream_mysql_to_pytable: the stream ends
\* there, and no later row of the source is read or appended.
C8_BadRowEndsStream ==
    (cursor.k >= 1 /\ Unrecoverable(LastRow)) =>
        /\ pc = "raised"
        /\ error.type = (IF RetryFails(LastRow, FirstFailure(LastRow)) THEN "TypeError" ELSE "ValueError")
        /\ Appended = cursor.k - 1
        /\ SubSeq(CallTable.rows, 1, Len(call.rows_before)) = call.rows_before
        /\ ~ENABLED NextStream

C8_Witness ==
    /\ pc = "raised"
    /\ Unrecoverable(LastRow)
    /\ cursor.k = 1
    /\ cursor.n > cursor.k
    /\ Len(call.rows_before) = 1
    /\ CallTable.rows = call.rows_before

\* ----------------------------------------------------------- the two phases
\* Data movement has begun: a cursor was handed to
\* safe_stream_mysql_to_pytable, or some table holds a record.
Streaming ==
    \/ pc = "stream"
    \/ call # NoCall
    \/ cursor # NoCursor
    \/ \E l \in DOMAIN tables : tables[l].rows # <<>>

\* Every node type of the configuration has its merged description, its table
\* and one binding for each of its sources.
InitialisedAll ==
    \A i \in DOMAIN config.labels :
        LET l == config.labels[i]
        IN  /\ l \in DOMAIN node_tables_pre
            /\ l \in DOMAIN tables
            /\ l \in DOMAIN nodes
            /\ Len(nodes[l]) = Len(config.sources[l])

TwoPhase ==
    /\ Streaming => (InitialisedAll /\ pc \notin {"process_config", "peek", "make_tables"})
    /\ pc \in {"make_tables", "constructed", "parse_nodes", "stream", "parse_relationships", "done"}
          => DOMAIN node_tables_pre = Range(config.labels)

\* The step is a run of merge_fields: it returns (the node type gets its
\* description) or raises (the call on record changes).
MergeRuns == node_tables_pre' # node_tables_pre \/ last_merge' # last_merge

\* The fields of every source of the node type at hand, as its peeks gave them.
PeekedFields ==
    Flatten([i \in 1..Len(cur_sources) |->
                types_structured_of(description_to_fields(schema_of(cur_label, cur_sources[i])))])

\* C11: the build has two phases.  No row is streamed, and no table holds a
\* record, before every node type of the configuration has its merged
\* description, its table and its source bindings; and merge_fields runs for
\* a node type only once the peek of every one of its sources is collected
\* (its argument is the fields of all of them), once for each node type: the
\* node type has no description before the run, and every node type has one
\* when the peeks are over.
C11_TwoPhaseBuild ==
    [][/\ TwoPhase
       /\ TwoPhase'
       /\ MergeRuns =>
            /\ pc = "peek"
            /\ si = Len(cur_sources) + 1
            /\ \A i \in 1..Len(cur_sources) : peeked(cur_label, cur_sources[i])
            /\ all_sources_fields = PeekedFields
            /\ last_merge'.called /\ last_merge'.arg = PeekedFields
            /\ cur_label \notin DOMAIN node_tables_pre
            /\ tables = EmptyFn
            /\ ~Streaming]_vars

\* The second node type is streamed, the first (of two sources) holds records.
C11_Witness ==
    /\ pc = "stream"
    /\ Len(config.labels) = 2
    /\ ni = 2
    /\ cursor.k >= 1
    /\ Len(config.sources[config.labels[1]]) = 2
    /\ tables[config.labels[1]].rows # <<>>
    /\ tables[config.labels[2]].rows # <<>>

\* ------------------------------------------------------- the file's handle
\* The run is over: build_hdf5_database returned, or an exception left
\* __init__ or build_hdf5_database.
BuildOver == pc \in {"done", "raised"}

\* C12, as the specification states it: on every exit path of a build that
\* opened the HDF5 file (line 153), every node type having a source and every
\* source being connected, the handle has been released; neither a
\* build that returns nor one that an exception ends, in _initialize_tables
\* or while streaming, leaves it open.
C12_HandleReleasedOnExit ==
    (/\ BuildOver
     /\ h5_file # "none"
     /\ \A i \in DOMAIN config.labels : config.sources[config.labels[i]] # <<>>
     /\ mysql_dbs = SourceNames) =>
        h5_file = "closed"

\* ------------------------------------------- a source's stream that fails
\* The fetch of a row of the source at hand failed.
FetchFailed == error.type = "mysql.connector.Error"

\* A source or a node type is still to be ingested after the one at hand.
SourcesRemain == si < Len(cur_sources) \/ ni < Len(config.labels)

\* The table of the call holds what it held at the call's entry followed by
\* one record for each row the cursor yielded.
RowsKept ==
    /\ Len(tables[call.label].rows) = Len(call.rows_before) + Len(call.yielded)
    /\ SubSeq(tables[call.label].rows, 1, Len(call.rows_before)) = call.rows_before

\* C13, as the specification states it: when a fetch of a source fails after
\* some of its rows were read, and sources or node types remain, the records
\* appended so far stay in the table and the build goes on with what remains.
C13_FailedSourceBuildGoesOn ==
    (FetchFailed /\ SourcesRemain /\ call.yielded # <<>>) =>
        /\ RowsKept
        /\ pc # "raised"
        /\ ENABLED Next

\* C13, amended: when a fetch of a source fails, ingestion from that source
\* stops and the records appended so far (by earlier sources of the node type
\* and from the rows read before the failure) stay in the table, but the
\* exception ends the build: no step follows, the sources and node types
\* that remain are not ingested (the tables of later node types stay empty).
C13_FailedSourceEndsBuild ==
    FetchFailed =>
        /\ RowsKept
        /\ Len(call.yielded) = cursor.k - 1
        /\ pc = "raised"
        /\ ~ENABLED Next
        /\ \A i \in DOMAIN config.labels : i > ni => tables[config.labels[i]].rows = <<>>

\* The second fetch of the second source of the first of two node types fails.
C13_Witness ==
    /\ FetchFailed
    /\ pc = "raised"
    /\ Len(config.labels) = 2
    /\ ni = 1
    /\ si = 2
    /\ cursor.k = 2
    /\ call.rows_before # <<>>
    /\ Len(tables[call.label].rows) = Len(call.rows_before) + 1

\* --------------------------------------------------------- append only
\* The record that the assignments of lines 521-527 make of a row.
RecordOf(row) ==
    assign_fields(default_row(CallTable.descr), CallTable.descr, CallFields, row, 1).value

\* The rows of the cursor that have become records: all those yielded, but
\* the last one when its assignments raised.
RowsAppended == IF pc = "raised" THEN Len(call.yielded) - 1 ELSE Len(call.yielded)

TableColumns(label) == {tables[label].descr[i][1] : i \in DOMAIN tables[label].descr}

\* A row of the source that every column takes as it is.
PlainRow(b) == [j \in DOMAIN b.field_names |-> "ok"]

\* C15: once __init__ has returned, every node type of the configuration has
\* one source binding for each of its configured sources, in the order of the
\* configuration, for the table the node type reads of the source; the field
\* names of each binding are the columns of that table, and each of them is
\* a field of the node type's merged description and a column of its table:
\* the assignments row[f] = d of a row of the source raise no KeyError.
C15_BindingsWithinSchema ==
    pc = "constructed" =>
        \A n \in DOMAIN config.labels :
            LET l == config.labels[n]
            IN  /\ l \in DOMAIN nodes /\ l \in DOMAIN tables /\ l \in DOMAIN node_tables_pre
                /\ Len(nodes[l]) = Len(config.sources[l])
                /\ \A k \in DOMAIN nodes[l] :
                    LET b == nodes[l][k]
                    IN  /\ b.source_name = config.sources[l][k]
                        /\ b.source_table_name = config.table[l][b.source_name]
                        /\ b.field_names = SourceColumns(l, b.source_name)
                        /\ Range(b.field_names) \subseteq Range(keys_of(node_tables_pre[l]))
                        /\ Range(b.field_names) \subseteq TableColumns(l)
                        /\ assign_fields(default_row(tables[l].descr), tables[l].descr,
                                         b.field_names, PlainRow(b), 1).returned

\* Two node types of two sources each; the second reads another table of a
\* source than the first, with other columns.
C15_Witness ==
    /\ pc = "constructed"
    /\ Len(config.labels) = 2
    /\ \A n \in DOMAIN config.labels : Len(nodes[config.labels[n]]) = 2
    /\ \E j, k \in 1..2 :
        LET a == nodes[config.labels[1]][j]
            b == nodes[config.labels[2]][k]
        IN  /\ a.source_name = b.source_name
            /\ a.source_table_name # b.source_table_name
            /\ Range(a.field_names) # Range(b.field_names)
            /\ TableColumns(config.labels[1]) # TableColumns(config.labels[2])

====
